---- MODULE Spec2Model ----
(***************************************************************************)
(* Model of the batched quad renderer of tetra, src/graphics/mod.rs.       *)
(*                                                                         *)
(* The state is the GraphicsContext (variable graphics, one field per      *)
(* struct field), the state of the graphics device it drives (variable     *)
(* gl), and three history variables describing the operation that ran      *)
(* last: the device calls it issued (calls), the calls to flush it made    *)
(* (flushed) and its name, argument and what it started from (last).       *)
(* The Rectangle::row and Rectangle::column iterators in use are in iters. *)
(*                                                                         *)
(* f32 values are modelled by integers where the code only ever produces   *)
(* integral values (positions, sizes, UVs, colour channels) and by         *)
(* normalised fractions <<n, d>> where it divides (ortho).                 *)
(***************************************************************************)
EXTENDS Integers, Sequences, FiniteSets, TLC

VARIABLES graphics, gl, calls, flushed, last, iters

vars == <<graphics, gl, calls, flushed, last, iters>>

----------------------------------------------------------------------------
(* Program constants *)

SPRITE_CAPACITY == 1024
VERTEX_STRIDE == 8
INDEX_STRIDE == 6
INDEX_ARRAY == <<0, 1, 2, 2, 3, 0>>

(* color::WHITE and color::BLACK as <<r, g, b, a>> *)
WHITE == <<1, 1, 1, 1>>
BLACK == <<0, 0, 0, 1>>

----------------------------------------------------------------------------
(* Bounds of the model *)

\* most quads the model buffers in one batch
MaxSprites == 2
\* window widths are drawn from 1..MaxWindow
MaxWindow == 3

\* textures a drawable can bind
Textures == {"A", "B"}
None == "None"
\* internal resolutions the context is constructed with
InternalSizes == {<<1, 1>>, <<2, 1>>}
\* window sizes: narrower, as wide and wider than high, smaller and larger
\* than the internal resolution
WindowHeights == {1, 2}
WindowSizes == (1..MaxWindow) \X WindowHeights
\* positions a quad is drawn at
Positions == {<<0, 0>>, <<1, 0>>}
\* colours the target is cleared to
ClearColors == {BLACK, WHITE}

\* internal widths and heights of the resize specification: 1..MaxInternal
MaxInternal == 3
\* window widths and heights of the resize specification: 1..MaxResize
MaxResize == 6
ResizeInternalSizes == (1..MaxInternal) \X (1..MaxInternal)

\* items taken from one row or column iterator, at most
MaxTerms == 3
\* <<x, y, width, height>> the iterators are made with
RectArgs == {<<0, 0, 16, 16>>, <<3, 5, 1, 2>>, <<0, 5, 2, 1>>}
ResizeWindowSizes == (1..MaxResize) \X (1..MaxResize)

----------------------------------------------------------------------------
(* f32 arithmetic *)

Abs(n) == IF n < 0 THEN -n ELSE n

Sign(n) == IF n < 0 THEN -1 ELSE IF n > 0 THEN 1 ELSE 0

RECURSIVE GCD(_, _)
GCD(a, b) == IF b = 0 THEN a ELSE GCD(b, a % b)

\* n / d on f32: the quotient as a fraction in lowest terms with a positive
\* denominator; <<1,0>>, <<-1,0>> and <<0,0>> are +inf, -inf and NaN.
FDiv(n, d) ==
    IF d = 0 THEN <<Sign(n), 0>>
    ELSE LET g == GCD(Abs(n), Abs(d))
         IN  <<(Sign(d) * n) \div g, Abs(d) \div g>>

\* i32 division truncates toward zero.  (The sizes of the model are far from
\* the 32-bit range, so the other i32 operations are the integer ones.)
TDiv(a, b) == Sign(a) * Sign(b) * (Abs(a) \div Abs(b))

----------------------------------------------------------------------------
(* Rectangle, ortho, letterbox *)

Rectangle(x, y, width, height) ==
    [x |-> x, y |-> y, width |-> width, height |-> height]

\* Rectangle::row and Rectangle::column: the iterator they return
row(x, y, width, height) ==
    [kind |-> "row", next_rect |-> Rectangle(x, y, width, height)]

column(x, y, width, height) ==
    [kind |-> "column", next_rect |-> Rectangle(x, y, width, height)]

\* Option<Rectangle>
Some(rect) == [some |-> TRUE, rect |-> rect]
NoRectangle == [some |-> FALSE]

\* RectangleRow::next, returning the rectangle it has advanced to
RectangleRow_next_advanced(it) ==
    LET advanced == [it EXCEPT !.next_rect.x = @ + it.next_rect.width]
    IN  [iter |-> advanced, item |-> Some(advanced.next_rect)]

\* RectangleRow::next: the iterator after the call and the item returned
RectangleRow_next(it) ==
    LET current_rect == it.next_rect
    IN  [iter |-> [it EXCEPT !.next_rect.x = @ + it.next_rect.width],
         item |-> Some(current_rect)]

\* RectangleColumn::next
RectangleColumn_next(it) ==
    LET current_rect == it.next_rect
    IN  [iter |-> [it EXCEPT !.next_rect.y = @ + it.next_rect.height],
         item |-> Some(current_rect)]

ortho(left, right, bottom, top, near, far) ==
    LET c0r0 == FDiv(2, right - left)
        c1r1 == FDiv(2, top - bottom)
        c2r2 == FDiv(-2, far - near)
        c3r0 == FDiv(-(right + left), right - left)
        c3r1 == FDiv(-(top + bottom), top - bottom)
        c3r2 == FDiv(-(far + near), far - near)
        zero == <<0, 1>>
        one  == <<1, 1>>
    IN  << <<c0r0, zero, zero, zero>>,
           <<zero, c1r1, zero, zero>>,
           <<zero, zero, c2r2, zero>>,
           <<c3r0, c3r1, c3r2, one>> >>

\* letterbox, choosing the branch with < instead of <=
letterbox_strict_less(internal_width, internal_height, window_width, window_height) ==
    LET scale_factor == IF window_width < window_height
                        THEN TDiv(window_width, internal_width)
                        ELSE TDiv(window_height, internal_height)
        letterbox_width == internal_width * scale_factor
        letterbox_height == internal_height * scale_factor
        letterbox_x == TDiv(window_width - letterbox_width, 2)
        letterbox_y == TDiv(window_height - letterbox_height, 2)
    IN  Rectangle(letterbox_x, letterbox_y, letterbox_width, letterbox_height)

letterbox(internal_width, internal_height, window_width, window_height) ==
    LET scale_factor == IF window_width <= window_height
                        THEN TDiv(window_width, internal_width)
                        ELSE TDiv(window_height, internal_height)
        letterbox_width == internal_width * scale_factor
        letterbox_height == internal_height * scale_factor
        letterbox_x == TDiv(window_width - letterbox_width, 2)
        letterbox_y == TDiv(window_height - letterbox_height, 2)
    IN  Rectangle(letterbox_x, letterbox_y, letterbox_width, letterbox_height)

----------------------------------------------------------------------------
(* The graphics device.  A context c threaded through the operations is    *)
(* [graphics, gl, calls, flushed]; every device call appends one event to  *)
(* c.calls and updates c.gl.                                               *)

DefaultFramebuffer == "window"

gl_set_viewport(c, x, y, width, height) ==
    [c EXCEPT !.gl.viewport = <<x, y, width, height>>,
              !.calls = Append(@, [call |-> "set_viewport",
                                   viewport |-> <<x, y, width, height>>])]

gl_bind_framebuffer(c, framebuffer) ==
    [c EXCEPT !.gl.framebuffer = framebuffer,
              !.calls = Append(@, [call |-> "bind_framebuffer",
                                   framebuffer |-> framebuffer])]

gl_bind_default_framebuffer(c) ==
    [c EXCEPT !.gl.framebuffer = DefaultFramebuffer,
              !.calls = Append(@, [call |-> "bind_default_framebuffer"])]

gl_clear(c, r, g, b, a) ==
    [c EXCEPT !.calls = Append(@, [call |-> "clear",
                                   color |-> <<r, g, b, a>>,
                                   target |-> c.gl.framebuffer])]

gl_set_uniform(c, shader, name, value) ==
    [c EXCEPT !.gl.uniforms[shader] = value,
              !.calls = Append(@, [call |-> "set_uniform", shader |-> shader,
                                   name |-> name, value |-> value])]

gl_set_vertex_buffer_data(c, buffer, data, offset) ==
    [c EXCEPT !.calls = Append(@, [call |-> "set_vertex_buffer_data",
                                   buffer |-> buffer, data |-> data,
                                   offset |-> offset])]

\* The event of a draw call also records what the device had bound when it
\* was issued: the render target, the viewport and the shader's projection.
gl_draw(c, vertex_buffer, index_buffer, shader, texture, count) ==
    [c EXCEPT !.calls = Append(@, [call |-> "draw",
                                   vertex_buffer |-> vertex_buffer,
                                   index_buffer |-> index_buffer,
                                   shader |-> shader,
                                   texture |-> texture,
                                   count |-> count,
                                   target |-> c.gl.framebuffer,
                                   viewport |-> c.gl.viewport,
                                   projection |-> c.gl.uniforms[shader]])]

gl_swap_window(c) ==
    [c EXCEPT !.calls = Append(@, [call |-> "swap_window"])]

\* attaching a texture binds the framebuffer, and leaves it bound unless
\* rebind_previous
gl_attach_texture_to_framebuffer(c, framebuffer, texture, rebind_previous) ==
    [c EXCEPT !.gl.framebuffer = IF rebind_previous THEN @ ELSE framebuffer,
              !.calls = Append(@, [call |-> "attach_texture_to_framebuffer",
                                   framebuffer |-> framebuffer,
                                   texture |-> texture])]

gl_set_index_buffer_data(c, buffer, data, offset) ==
    [c EXCEPT !.calls = Append(@, [call |-> "set_index_buffer_data",
                                   buffer |-> buffer, data |-> data,
                                   offset |-> offset])]

----------------------------------------------------------------------------
(* GraphicsContext::new *)

\* index_at, with an offset of 6 per quad instead of 4
index_at_stride_6(i) ==
    INDEX_ARRAY[(i % INDEX_STRIDE) + 1] + (i \div INDEX_STRIDE) * 6

\* the entry of the index buffer at position i, counted from 0
index_at(i) ==
    INDEX_ARRAY[(i % INDEX_STRIDE) + 1] + (i \div INDEX_STRIDE) * 4

\* the indices of a buffer of capacity quads
indices(capacity) == [k \in 1..(capacity * INDEX_STRIDE) |-> index_at(k - 1)]

new(internal_width, internal_height, window_width, window_height) ==
    LET c0 ==
          [graphics |->
              [vertex_buffer |-> "vertex_buffer",
               index_buffer |-> "index_buffer",
               framebuffer |-> "framebuffer",
               framebuffer_texture |-> "framebuffer_texture",
               texture |-> None,
               shader |-> None,
               default_shader |-> "default_shader",
               internal_projection |->
                   ortho(0, internal_width, internal_height, 0, -1, 1),
               window_projection |->
                   ortho(0, window_width, window_height, 0, -1, 1),
               vertices |-> <<>>,
               sprite_count |-> 0,
               capacity |-> SPRITE_CAPACITY,
               internal_width |-> internal_width,
               internal_height |-> internal_height,
               window_width |-> window_width,
               window_height |-> window_height,
               letterbox |-> letterbox(internal_width, internal_height,
                                       window_width, window_height)],
           \* the device before construction: the window surface is bound
           gl |-> [framebuffer |-> DefaultFramebuffer,
                   viewport |-> <<0, 0, window_width, window_height>>,
                   uniforms |-> [s \in {"default_shader"} |-> <<>>]],
           calls |-> <<>>,
           flushed |-> <<>>]
        c1 == gl_attach_texture_to_framebuffer(c0, c0.graphics.framebuffer,
                  c0.graphics.framebuffer_texture, FALSE)
        c2 == gl_set_viewport(c1, 0, 0, internal_width, internal_height)
    IN  gl_set_index_buffer_data(c2, c2.graphics.index_buffer,
                                 indices(SPRITE_CAPACITY), 0)

----------------------------------------------------------------------------
(* Operations on the context *)

clear(c, color) == gl_clear(c, color[1], color[2], color[3], color[4])

push_vertex(c, x, y, u, v, color) ==
    [c EXCEPT !.graphics.vertices =
        @ \o <<x, y, u, v, color[1], color[2], color[3], color[4]>>]

\* the device calls of a flush: uniform, upload, draw
flush_send(c, projection) ==
    LET texture == c.graphics.texture
        shader == IF c.graphics.shader # None
                  THEN c.graphics.shader
                  ELSE c.graphics.default_shader
        c1 == gl_set_uniform(c, shader, "projection", projection)
        c2 == gl_set_vertex_buffer_data(c1, c.graphics.vertex_buffer,
                                        c.graphics.vertices, 0)
    IN  gl_draw(c2, c.graphics.vertex_buffer, c.graphics.index_buffer,
                shader, texture, c.graphics.sprite_count * INDEX_STRIDE)

\* flush_body, forgetting vertices.clear()
flush_body_keep_vertices(c) ==
    IF c.graphics.sprite_count > 0 /\ c.graphics.texture # None
    THEN [flush_send(c, c.graphics.internal_projection)
            EXCEPT !.graphics.sprite_count = 0]
    ELSE c

\* flush_body, forgetting sprite_count = 0
flush_body_keep_count(c) ==
    IF c.graphics.sprite_count > 0 /\ c.graphics.texture # None
    THEN [flush_send(c, c.graphics.internal_projection)
            EXCEPT !.graphics.vertices = <<>>]
    ELSE c

\* flush_body, without the sprite_count > 0 test
flush_body_no_count_guard(c) ==
    IF c.graphics.texture # None
    THEN [flush_send(c, c.graphics.internal_projection)
            EXCEPT !.graphics.vertices = <<>>,
                   !.graphics.sprite_count = 0]
    ELSE c

\* flush_body, drawing with the window projection
flush_body_window_projection(c) ==
    IF c.graphics.sprite_count > 0 /\ c.graphics.texture # None
    THEN [flush_send(c, c.graphics.window_projection)
            EXCEPT !.graphics.vertices = <<>>,
                   !.graphics.sprite_count = 0]
    ELSE c

\* flush_body, unbinding the texture once the batch is drawn
flush_body_unbinds_texture(c) ==
    IF c.graphics.sprite_count > 0 /\ c.graphics.texture # None
    THEN [flush_send(c, c.graphics.internal_projection)
            EXCEPT !.graphics.vertices = <<>>,
                   !.graphics.sprite_count = 0,
                   !.graphics.texture = None]
    ELSE c

\* the body of flush
flush_body(c) ==
    IF c.graphics.sprite_count > 0 /\ c.graphics.texture # None
    THEN [flush_send(c, c.graphics.internal_projection)
            EXCEPT !.graphics.vertices = <<>>,
                   !.graphics.sprite_count = 0]
    ELSE c

\* flush, with the call recorded in c.flushed: what it was called on, the
\* device calls it issued and what it returned with
flush(c) ==
    LET r == flush_body(c)
    IN  [r EXCEPT !.flushed = Append(@,
            [pre_sprite_count |-> c.graphics.sprite_count,
             pre_texture |-> c.graphics.texture,
             pre_vertices |-> c.graphics.vertices,
             issued |-> SubSeq(r.calls, Len(c.calls) + 1, Len(r.calls)),
             sprite_count |-> r.graphics.sprite_count,
             vertices |-> r.graphics.vertices,
             unchanged |-> (r.graphics = c.graphics /\ r.gl = c.gl)])]

\* set_texture, without the arm for the texture that is already bound
set_texture_no_same_arm(c, texture) ==
    IF c.graphics.texture = None
    THEN [c EXCEPT !.graphics.texture = texture]
    ELSE flush([c EXCEPT !.graphics.texture = texture])

set_texture(c, texture) ==
    IF c.graphics.texture # None /\ c.graphics.texture = texture
    THEN c
    ELSE IF c.graphics.texture = None
    THEN [c EXCEPT !.graphics.texture = texture]
    ELSE flush([c EXCEPT !.graphics.texture = texture])

\* present: bind the window surface, full-window viewport, clear to black
present_target(c) ==
    LET c1 == gl_bind_default_framebuffer(c)
        c2 == gl_set_viewport(c1, 0, 0, c1.graphics.window_width,
                              c1.graphics.window_height)
    IN  clear(c2, BLACK)

\* present: the quad of the letterbox
present_quad(c) ==
    LET lb == c.graphics.letterbox
        c1 == push_vertex(c, lb.x, lb.y, 0, 1, WHITE)
        c2 == push_vertex(c1, lb.x, lb.y + lb.height, 0, 0, WHITE)
        c3 == push_vertex(c2, lb.x + lb.width, lb.y + lb.height, 1, 0, WHITE)
    IN  push_vertex(c3, lb.x + lb.width, lb.y, 1, 1, WHITE)

\* the blit of present with a given projection
present_send(c, projection) ==
    LET c1 == gl_set_uniform(c, c.graphics.default_shader, "projection",
                             projection)
        c2 == gl_set_vertex_buffer_data(c1, c1.graphics.vertex_buffer,
                                        c1.graphics.vertices, 0)
    IN  gl_draw(c2, c2.graphics.vertex_buffer, c2.graphics.index_buffer,
                c2.graphics.default_shader, c2.graphics.framebuffer_texture,
                INDEX_STRIDE)

\* present_blit, forgetting vertices.clear()
present_blit_no_clear(c) == present_send(c, c.graphics.window_projection)

\* present_blit, drawing with the internal projection
present_blit_internal_projection(c) ==
    [present_send(c, c.graphics.internal_projection)
        EXCEPT !.graphics.vertices = <<>>]

\* present: draw the offscreen texture into the window, empty the buffer
present_blit(c) ==
    [present_send(c, c.graphics.window_projection)
        EXCEPT !.graphics.vertices = <<>>]

\* present_restore, re-binding the framebuffer before the swap
present_restore_rebind_first(c) ==
    LET c1 == gl_bind_framebuffer(c, c.graphics.framebuffer)
        c2 == gl_swap_window(c1)
    IN  gl_set_viewport(c2, 0, 0, c2.graphics.internal_width,
                        c2.graphics.internal_height)

\* present_restore, forgetting to re-bind the offscreen framebuffer
present_restore_no_rebind(c) ==
    LET c1 == gl_swap_window(c)
    IN  gl_set_viewport(c1, 0, 0, c1.graphics.internal_width,
                        c1.graphics.internal_height)

\* present: swap, re-bind the offscreen framebuffer, restore the viewport
present_restore(c) ==
    LET c1 == gl_swap_window(c)
        c2 == gl_bind_framebuffer(c1, c1.graphics.framebuffer)
    IN  gl_set_viewport(c2, 0, 0, c2.graphics.internal_width,
                        c2.graphics.internal_height)

\* present, without the flush it starts with
present_no_flush(c) ==
    present_restore(present_blit(present_quad(present_target(c))))

present(c) ==
    present_restore(present_blit(present_quad(present_target(flush(c)))))

\* set_window_size, recomputing the internal projection with the window's
set_window_size_both_projections(c, width, height) ==
    [c EXCEPT !.graphics.window_width = width,
              !.graphics.window_height = height,
              !.graphics.window_projection =
                  ortho(0, width, height, 0, -1, 1),
              !.graphics.internal_projection =
                  ortho(0, width, height, 0, -1, 1),
              !.graphics.letterbox =
                  letterbox(c.graphics.internal_width,
                            c.graphics.internal_height, width, height)]

\* set_window_size, forgetting to recompute the letterbox
set_window_size_stale_letterbox(c, width, height) ==
    [c EXCEPT !.graphics.window_width = width,
              !.graphics.window_height = height,
              !.graphics.window_projection =
                  ortho(0, width, height, 0, -1, 1)]

set_window_size(c, width, height) ==
    [c EXCEPT !.graphics.window_width = width,
              !.graphics.window_height = height,
              !.graphics.window_projection =
                  ortho(0, width, height, 0, -1, 1),
              !.graphics.letterbox =
                  letterbox(c.graphics.internal_width,
                            c.graphics.internal_height, width, height)]

\* Drawable::draw of a texture of size 1 x 1 at position, with the default
\* scale, origin, colour and clip: bind the texture, append the four corners
\* of the quad, count the sprite.
draw(c, texture, position) ==
    LET x1 == position[1]
        y1 == position[2]
        x2 == x1 + 1
        y2 == y1 + 1
        c1 == set_texture(c, texture)
        c2 == push_vertex(c1, x1, y1, 0, 0, WHITE)
        c3 == push_vertex(c2, x1, y2, 0, 1, WHITE)
        c4 == push_vertex(c3, x2, y2, 1, 1, WHITE)
        c5 == push_vertex(c4, x2, y1, 1, 0, WHITE)
    IN  [c5 EXCEPT !.graphics.sprite_count = @ + 1]

----------------------------------------------------------------------------
(* The state machine *)

\* the iterators the program holds, by name; Nil where there is none
IterIds == {1, 2}
Nil == [kind |-> "nil"]
NoIters == [i \in IterIds |-> Nil]

\* the context an operation starts from: the state, and empty histories
Ctx == [graphics |-> graphics, gl |-> gl, calls |-> <<>>, flushed |-> <<>>]

\* what an operation started from
Started(op, arg) ==
    [op |-> op, arg |-> arg,
     sprite_count |-> graphics.sprite_count,
     texture |-> graphics.texture,
     \* whether a present had returned before
     presented |-> (last.presented \/ last.op = "present")]

Becomes(c, l) ==
    /\ graphics' = c.graphics
    /\ gl' = c.gl
    /\ calls' = c.calls
    /\ flushed' = c.flushed
    /\ last' = l
    /\ UNCHANGED iters

Init ==
    \E i \in InternalSizes, w \in WindowSizes :
        LET c == new(i[1], i[2], w[1], w[2])
        IN  /\ graphics = c.graphics
            /\ gl = c.gl
            /\ calls = c.calls
            /\ flushed = c.flushed
            /\ last = [op |-> "new", arg |-> None, sprite_count |-> 0,
                       texture |-> None, presented |-> FALSE]
            /\ iters = NoIters

Draw ==
    \E t \in Textures, p \in Positions :
        /\ graphics.sprite_count < MaxSprites
        /\ Becomes(draw(Ctx, t, p), Started("draw", t))

SetTexture ==
    \E t \in Textures : Becomes(set_texture(Ctx, t), Started("set_texture", t))

Flush == Becomes(flush(Ctx), Started("flush", None))

Present == Becomes(present(Ctx), Started("present", None))

SetWindowSize ==
    \E w \in WindowSizes :
        Becomes(set_window_size(Ctx, w[1], w[2]),
                Started("set_window_size", None))

Clear ==
    \E color \in ClearColors : Becomes(clear(Ctx, color), Started("clear", None))

Next ==
    \/ Draw
    \/ SetTexture
    \/ Flush
    \/ Present
    \/ SetWindowSize
    \/ Clear

Spec == Init /\ [][Next]_vars

----------------------------------------------------------------------------
(* Construction and resizes alone, over more sizes *)

InitResize ==
    \E i \in ResizeInternalSizes, w \in ResizeWindowSizes :
        LET c == new(i[1], i[2], w[1], w[2])
        IN  /\ graphics = c.graphics
            /\ gl = c.gl
            /\ calls = c.calls
            /\ flushed = c.flushed
            /\ last = [op |-> "new", arg |-> None, sprite_count |-> 0,
                       texture |-> None, presented |-> FALSE]
            /\ iters = NoIters

Resize ==
    \E w \in ResizeWindowSizes :
        Becomes(set_window_size(Ctx, w[1], w[2]),
                Started("set_window_size", None))

NextResize == Resize

SpecResize == InitResize /\ [][NextResize]_vars

----------------------------------------------------------------------------
(* Row and column iterators.  An entry of iters is the iterator together   *)
(* with its history: the rectangle it was made with, the number of items   *)
(* taken from it and the item returned last.                               *)

Made(it) ==
    [kind |-> it.kind, next_rect |-> it.next_rect, start |-> it.next_rect,
     taken |-> 0, item |-> NoRectangle]

Taken(entry, r) ==
    [kind |-> r.iter.kind, next_rect |-> r.iter.next_rect,
     start |-> entry.start, taken |-> entry.taken + 1, item |-> r.item]

InitRect ==
    LET c == new(1, 1, 1, 1)
    IN  /\ graphics = c.graphics
        /\ gl = c.gl
        /\ calls = c.calls
        /\ flushed = c.flushed
        /\ last = [op |-> "new", arg |-> None, sprite_count |-> 0,
                   texture |-> None, presented |-> FALSE]
        /\ iters = NoIters

NewRow ==
    \E id \in IterIds, a \in RectArgs :
        /\ iters' = [iters EXCEPT ![id] = Made(row(a[1], a[2], a[3], a[4]))]
        /\ UNCHANGED <<graphics, gl, calls, flushed, last>>

NewColumn ==
    \E id \in IterIds, a \in RectArgs :
        /\ iters' = [iters EXCEPT
                        ![id] = Made(column(a[1], a[2], a[3], a[4]))]
        /\ UNCHANGED <<graphics, gl, calls, flushed, last>>

RowNext ==
    \E id \in IterIds :
        /\ iters[id].kind = "row"
        /\ iters[id].taken < MaxTerms
        /\ iters' = [iters EXCEPT
                        ![id] = Taken(@, RectangleRow_next(
                                    [kind |-> @.kind,
                                     next_rect |-> @.next_rect]))]
        /\ UNCHANGED <<graphics, gl, calls, flushed, last>>

ColumnNext ==
    \E id \in IterIds :
        /\ iters[id].kind = "column"
        /\ iters[id].taken < MaxTerms
        /\ iters' = [iters EXCEPT
                        ![id] = Taken(@, RectangleColumn_next(
                                    [kind |-> @.kind,
                                     next_rect |-> @.next_rect]))]
        /\ UNCHANGED <<graphics, gl, calls, flushed, last>>

NextRect ==
    \/ NewRow
    \/ NewColumn
    \/ RowNext
    \/ ColumnNext

SpecRect == InitRect /\ [][NextRect]_vars

----------------------------------------------------------------------------
(* One frame of draws of one texture, up to one quad past the capacity *)

InitFill ==
    LET c == new(1, 1, 1, 1)
    IN  /\ graphics = c.graphics
        /\ gl = c.gl
        /\ calls = c.calls
        /\ flushed = c.flushed
        /\ last = [op |-> "new", arg |-> None, sprite_count |-> 0,
                   texture |-> None, presented |-> FALSE]
        /\ iters = NoIters

DrawFill ==
    /\ graphics.sprite_count <= graphics.capacity
    /\ Becomes(draw(Ctx, "A", <<0, 0>>), Started("draw", "A"))

NextFill == DrawFill

SpecFill == InitFill /\ [][NextFill]_vars

----------------------------------------------------------------------------
(* Reading the histories *)

Draws(s) == SelectSeq(s, LAMBDA e : e.call = "draw")

Uploads(s) == SelectSeq(s, LAMBDA e : e.call = "set_vertex_buffer_data")

Uniforms(s) == SelectSeq(s, LAMBDA e : e.call = "set_uniform")

\* the calls of s that are neither uniform updates nor uploads
TargetCalls(s) ==
    SelectSeq(s, LAMBDA e : e.call \notin {"set_uniform",
                                           "set_vertex_buffer_data"})

CallNames(s) == [i \in DOMAIN s |-> s[i].call]

\* the last operation was set_texture(B) with another texture A bound and
\* quads buffered
SwapWithPending ==
    /\ last.op = "set_texture"
    /\ last.texture # None
    /\ last.texture # last.arg
    /\ last.sprite_count > 0

\* the active shader of the context
ActiveShader ==
    IF graphics.shader # None THEN graphics.shader
    ELSE graphics.default_shader

----------------------------------------------------------------------------
(* Claims *)

\* C1: when set_texture(B) is called while a different texture A is bound
\* and sprite_count > 0, exactly one flush happens and its draw call renders
\* the buffered quads with the old texture A.
C1_SwapDrawsOldTexture ==
    SwapWithPending =>
        /\ Len(flushed) = 1
        /\ Len(Draws(calls)) = 1
        /\ Draws(calls)[1].count = last.sprite_count * INDEX_STRIDE
        /\ Draws(calls)[1].texture = last.texture

\* C2: set_texture(t) calls flush if and only if a texture is bound and it
\* differs from t; when t is the bound texture or none is bound, it issues
\* no upload and no draw call and leaves vertices and sprite_count as they
\* were.
C2_SetTextureFlushesIffSwap ==
    [][last'.op = "set_texture" =>
         LET t == last'.arg
             swap == graphics.texture # None /\ graphics.texture # t
         IN  /\ (flushed' # <<>>) <=> swap
             /\ ~swap =>
                  /\ Uploads(calls') = <<>>
                  /\ Draws(calls') = <<>>
                  /\ graphics'.vertices = graphics.vertices
                  /\ graphics'.sprite_count = graphics.sprite_count]_vars

\* set_texture of the texture that is already bound, with quads buffered,
\* has kept them and not flushed
C2_Witness ==
    /\ last.op = "set_texture"
    /\ last.texture = last.arg
    /\ last.sprite_count > 0
    /\ graphics.sprite_count = last.sprite_count
    /\ flushed = <<>>
    /\ calls = <<>>

\* C3: every call to flush, direct or from set_texture, draw or present,
\* returns with sprite_count = 0 and the vertex scratch buffer empty.
C3_FlushLeavesBatchEmpty ==
    \A i \in DOMAIN flushed :
        /\ flushed[i].sprite_count = 0
        /\ flushed[i].vertices = <<>>

\* a flush was called on a batch of buffered quads
C3_Witness ==
    \E i \in DOMAIN flushed :
        /\ flushed[i].pre_sprite_count > 0
        /\ flushed[i].pre_vertices # <<>>
        /\ flushed[i].sprite_count = 0

\* C4: after draw calls whose buffered quads do not exceed the capacity, a
\* following flush leaves sprite_count = 0 and the vertex scratch buffer
\* empty.
C4_BatchEmptyAfterFlush ==
    (last.op = "flush" /\ last.sprite_count <= graphics.capacity) =>
        /\ graphics.sprite_count = 0
        /\ graphics.vertices = <<>>

\* the operation flush ran on a batch of at least two quads
C4_Witness ==
    /\ last.op = "flush"
    /\ last.sprite_count >= 2
    /\ Len(flushed) = 1
    /\ Len(flushed[1].pre_vertices) = last.sprite_count * 4 * VERTEX_STRIDE
    /\ graphics.sprite_count = 0

\* C5: at every operation boundary the length of the vertex scratch buffer
\* is sprite_count * 4 * 8.
C5_VerticesLength ==
    Len(graphics.vertices) = graphics.sprite_count * 4 * VERTEX_STRIDE

\* a draw has just added a quad to a batch that already held one
C5_Witness ==
    /\ last.op = "draw"
    /\ graphics.sprite_count >= 2
    /\ Len(graphics.vertices) >= 2 * 4 * VERTEX_STRIDE

\* C6: a call to flush with sprite_count = 0 or with no texture bound issues
\* no device call (no uniform update, no upload, no draw) and leaves the
\* context and the device as they were; so does a flush right after a flush.
C6_EmptyFlushIsNoOp ==
    \A i \in DOMAIN flushed :
        (flushed[i].pre_sprite_count = 0 \/ flushed[i].pre_texture = None) =>
            /\ flushed[i].issued = <<>>
            /\ flushed[i].unchanged

\* the operation flush ran with a texture bound and nothing buffered
C6_Witness ==
    /\ last.op = "flush"
    /\ last.sprite_count = 0
    /\ last.texture # None
    /\ Len(flushed) = 1
    /\ calls = <<>>

\* C7: a flush of n > 0 quads with a texture bound issues exactly one upload,
\* of the whole vertex scratch buffer at offset 0, and exactly one draw call,
\* of n * 6 indices with the bound texture and the active shader, whose
\* projection uniform is then the internal projection.
C7_FlushIssuesOneDraw ==
    \A i \in DOMAIN flushed :
        LET f == flushed[i]
            ups == Uploads(f.issued)
            drs == Draws(f.issued)
        IN  (f.pre_sprite_count > 0 /\ f.pre_texture # None) =>
                /\ Len(ups) = 1
                /\ ups[1].buffer = graphics.vertex_buffer
                /\ ups[1].data = f.pre_vertices
                /\ ups[1].offset = 0
                /\ Len(drs) = 1
                /\ drs[1].count = f.pre_sprite_count * 6
                /\ drs[1].texture = f.pre_texture
                /\ drs[1].shader = ActiveShader
                /\ drs[1].projection = graphics.internal_projection
                /\ f.issued[Len(f.issued)].call = "draw"

\* a flush of at least two quads, in a window whose projection differs from
\* the internal one
C7_Witness ==
    /\ graphics.window_projection # graphics.internal_projection
    /\ \E i \in DOMAIN flushed :
          /\ flushed[i].pre_sprite_count >= 2
          /\ Len(Draws(flushed[i].issued)) = 1

\* C8: a draw that binds no other texture over buffered quads issues no draw
\* call and buffers one more quad, and a present over k > 0 buffered quads
\* issues exactly two draw calls: one of k * 6 indices with the texture of
\* the batch, then the blit of 6 indices.
C8_DrawsAreDeferred ==
    /\ (/\ last.op = "draw"
        /\ (last.texture \in {None, last.arg} \/ last.sprite_count = 0)) =>
            /\ Draws(calls) = <<>>
            /\ graphics.sprite_count = last.sprite_count + 1
    /\ (last.op = "present" /\ last.sprite_count > 0) =>
            /\ Len(Draws(calls)) = 2
            /\ Draws(calls)[1].count = last.sprite_count * 6
            /\ Draws(calls)[1].texture = last.texture
            /\ Draws(calls)[2].count = 6
            /\ Draws(calls)[2].texture = graphics.framebuffer_texture

\* present ran over a batch of at least two quads
C8_Witness ==
    /\ last.op = "present"
    /\ last.sprite_count >= 2
    /\ Len(Draws(calls)) = 2
    /\ Draws(calls)[1].count = last.sprite_count * 6

\* C9: the device calls of present other than uniform updates and uploads
\* are, in this order: the draw call of the pending batch (if any) into the
\* offscreen framebuffer, bind the window surface, viewport of the whole
\* window, clear to black, the blit draw call into the window, swap, re-bind
\* the offscreen framebuffer, viewport of the internal resolution.
C9_PresentOrder ==
    last.op = "present" =>
        LET ev == TargetCalls(calls)
            n == Len(ev)
            pending == last.sprite_count > 0
            k == IF pending THEN 1 ELSE 0
        IN  /\ CallNames(ev) =
                  (IF pending THEN <<"draw">> ELSE <<>>) \o
                  <<"bind_default_framebuffer", "set_viewport", "clear",
                    "draw", "swap_window", "bind_framebuffer",
                    "set_viewport">>
            /\ pending => /\ ev[1].target = graphics.framebuffer
                          /\ ev[1].count = last.sprite_count * 6
            /\ ev[k + 2].viewport =
                  <<0, 0, graphics.window_width, graphics.window_height>>
            /\ ev[k + 3].color = BLACK
            /\ ev[k + 3].target = DefaultFramebuffer
            /\ ev[k + 4].target = DefaultFramebuffer
            /\ ev[k + 4].viewport =
                  <<0, 0, graphics.window_width, graphics.window_height>>
            /\ ev[k + 6].framebuffer = graphics.framebuffer
            /\ ev[k + 7].viewport =
                  <<0, 0, graphics.internal_width, graphics.internal_height>>
            /\ gl.framebuffer = graphics.framebuffer
            /\ gl.viewport =
                  <<0, 0, graphics.internal_width, graphics.internal_height>>

\* present ran over a pending batch, in a window of another size than the
\* internal resolution
C9_Witness ==
    /\ last.op = "present"
    /\ last.sprite_count > 0
    /\ graphics.window_width # graphics.internal_width
    /\ Len(TargetCalls(calls)) = 8

\* the j-th vertex (1..4) of vertex data d
VertexOf(d, j) == SubSeq(d, (j - 1) * VERTEX_STRIDE + 1, j * VERTEX_STRIDE)

\* C10: the last upload of present is one quad, 4 vertices of 8 floats: its
\* positions are the four corners of the letterbox, the vertex with UV (u, v)
\* sitting at x + u * width, its UVs are the four corners of the texture and
\* its colour is white; the blit draw call that follows draws 6 indices with
\* the default shader, its projection uniform being the window projection,
\* from the texture of the offscreen framebuffer.
C10_BlitQuad ==
    last.op = "present" =>
        LET ups == Uploads(calls)
            drs == Draws(calls)
            d == ups[Len(ups)].data
            blit == drs[Len(drs)]
            lb == graphics.letterbox
        IN  /\ Len(d) = 4 * VERTEX_STRIDE
            /\ ups[Len(ups)].offset = 0
            /\ {<<VertexOf(d, j)[1], VertexOf(d, j)[2]>> : j \in 1..4} =
                  {<<lb.x, lb.y>>, <<lb.x, lb.y + lb.height>>,
                   <<lb.x + lb.width, lb.y + lb.height>>,
                   <<lb.x + lb.width, lb.y>>}
            /\ {<<VertexOf(d, j)[3], VertexOf(d, j)[4]>> : j \in 1..4} =
                  {0, 1} \X {0, 1}
            /\ \A j \in 1..4 :
                  /\ VertexOf(d, j)[1] = lb.x + VertexOf(d, j)[3] * lb.width
                  /\ SubSeq(VertexOf(d, j), 5, 8) = WHITE
            /\ blit.count = 6
            /\ blit.shader = graphics.default_shader
            /\ blit.projection = graphics.window_projection
            /\ blit.texture = graphics.framebuffer_texture

\* present ran over a pending batch with a letterbox that has an area, does
\* not start at the origin, and a window projection other than the internal
C10_Witness ==
    /\ last.op = "present"
    /\ last.sprite_count > 0
    /\ graphics.letterbox.width > 0
    /\ graphics.letterbox.x + graphics.letterbox.y > 0
    /\ graphics.window_projection # graphics.internal_projection
    /\ Len(Uploads(calls)) = 2

\* C11: when present returns, the vertex scratch buffer is empty and
\* sprite_count = 0.
C11_NothingPersistsAcrossPresent ==
    last.op = "present" =>
        /\ graphics.vertices = <<>>
        /\ graphics.sprite_count = 0

\* present ran over a pending batch and has uploaded the quad of the blit
C11_Witness ==
    /\ last.op = "present"
    /\ last.sprite_count > 0
    /\ Len(Uploads(calls)) = 2
    /\ Uploads(calls)[2].data # <<>>
    /\ graphics.vertices = <<>>

\* the offscreen framebuffer is the render target and the viewport is the
\* internal resolution
OffscreenBound ==
    /\ gl.framebuffer = graphics.framebuffer
    /\ gl.viewport =
          <<0, 0, graphics.internal_width, graphics.internal_height>>

\* the draw calls of the flushes of the last operation
FlushDraws ==
    UNION {{Draws(flushed[i].issued)[j] :
               j \in DOMAIN Draws(flushed[i].issued)} : i \in DOMAIN flushed}

\* C12: once a present has returned, at every operation boundary the
\* offscreen framebuffer is bound and the viewport is the internal
\* resolution, and every draw call of a flush made by a later operation
\* has the offscreen framebuffer as its target.
C12_OffscreenAfterPresent ==
    /\ (last.op = "present" \/ last.presented) => OffscreenBound
    /\ last.presented =>
          \A e \in FlushDraws : e.target = graphics.framebuffer

\* an operation after a present has flushed a batch
C12_Witness ==
    /\ last.presented
    /\ OffscreenBound
    /\ \E e \in FlushDraws : e.count >= 6 /\ e.target = graphics.framebuffer

\* C13: set_window_size changes none of internal_width, internal_height,
\* the internal projection, the offscreen framebuffer and its texture.
C13_ResizeKeepsInternal ==
    [][last'.op = "set_window_size" =>
         /\ graphics'.internal_width = graphics.internal_width
         /\ graphics'.internal_height = graphics.internal_height
         /\ graphics'.internal_projection = graphics.internal_projection
         /\ graphics'.framebuffer = graphics.framebuffer
         /\ graphics'.framebuffer_texture = graphics.framebuffer_texture]_vars

\* set_window_size has set a window whose projection is not the internal one
C13_Witness ==
    /\ last.op = "set_window_size"
    /\ graphics.window_projection # graphics.internal_projection
    /\ graphics.window_projection =
          ortho(0, graphics.window_width, graphics.window_height, 0, -1, 1)

\* C14: the stored letterbox has width = internal_width * s and height =
\* internal_height * s, where s = window_width div internal_width if
\* window_width <= window_height and s = window_height div internal_height
\* otherwise, and x = (window_width - width) div 2, y = (window_height -
\* height) div 2, div being the division of i32 (toward zero); internal
\* (320,240) gives (0,0,640,480) in a window (640,480) and (80,0,640,480) in
\* a window (800,480), and internal (100,100) in a window (250,250) is
\* scaled by 2.
C14_LetterboxFormula ==
    /\ LET iw == graphics.internal_width
           ih == graphics.internal_height
           ww == graphics.window_width
           wh == graphics.window_height
           s == IF ww <= wh THEN ww \div iw ELSE wh \div ih
       IN  /\ graphics.letterbox.width = iw * s
           /\ graphics.letterbox.height = ih * s
           /\ graphics.letterbox.x = TDiv(ww - iw * s, 2)
           /\ graphics.letterbox.y = TDiv(wh - ih * s, 2)
    /\ letterbox(320, 240, 640, 480) = Rectangle(0, 0, 640, 480)
    /\ letterbox(320, 240, 800, 480) = Rectangle(80, 0, 640, 480)
    /\ letterbox(100, 100, 250, 250) = Rectangle(25, 25, 200, 200)

\* a resize to a square window with a wider internal resolution, scaled by
\* more than 1 and centred with a margin
C14_Witness ==
    /\ last.op = "set_window_size"
    /\ graphics.window_width = graphics.window_height
    /\ graphics.internal_width > graphics.internal_height
    /\ graphics.letterbox.width > graphics.internal_width
    /\ graphics.letterbox.y > 0

\* C15: the stored letterbox lies inside the window: x >= 0, y >= 0,
\* x + width <= window_width and y + height <= window_height, after
\* construction and after every set_window_size.
C15_LetterboxInsideWindow ==
    /\ graphics.letterbox.x >= 0
    /\ graphics.letterbox.y >= 0
    /\ graphics.letterbox.x + graphics.letterbox.width
          <= graphics.window_width
    /\ graphics.letterbox.y + graphics.letterbox.height
          <= graphics.window_height

\* C16: in every reachable state 0 <= sprite_count <= capacity, and the
\* vertex scratch buffer holds at most capacity * 4 * 8 floats.
C16_SpriteCountWithinCapacity ==
    /\ 0 <= graphics.sprite_count
    /\ graphics.sprite_count <= graphics.capacity
    /\ Len(graphics.vertices) <= graphics.capacity * 4 * VERTEX_STRIDE

\* C17: the n-th item (from 0) taken from an iterator made by row(x, y, w, h)
\* is Rectangle(x + n*w, y, w, h) and the n-th item of column(x, y, w, h) is
\* Rectangle(x, y + n*h, w, h); next always returns an item, and every
\* iterator counts from term 0 whatever was taken from the others.
C17_RowColumnTerms ==
    \A id \in IterIds :
        LET e == iters[id]
            n == e.taken - 1
        IN  (e.kind # "nil" /\ e.taken > 0) =>
                /\ e.item.some
                /\ e.kind = "row" =>
                      e.item.rect = Rectangle(e.start.x + n * e.start.width,
                                              e.start.y, e.start.width,
                                              e.start.height)
                /\ e.kind = "column" =>
                      e.item.rect = Rectangle(e.start.x,
                                              e.start.y + n * e.start.height,
                                              e.start.width, e.start.height)

\* a row at its third item and a column at its first, side by side
C17_Witness ==
    /\ iters[1].kind = "row"
    /\ iters[1].taken = 3
    /\ iters[1].start.x = 3
    /\ iters[1].item.rect.x = 5
    /\ iters[2].kind = "column"
    /\ iters[2].taken = 1
    /\ iters[2].item.rect = iters[2].start

\* the index data uploaded by the calls s
IndexUploads(s) == SelectSeq(s, LAMBDA e : e.call = "set_index_buffer_data")

\* C18: the index buffer built at construction holds capacity * 6 indices,
\* the entries 6q .. 6q+5 of every quad q being 4q, 4q+1, 4q+2, 4q+2, 4q+3,
\* 4q; the capacity is at most 8191, and every index is below 2^16 and
\* below capacity * 4, also for a buffer of 8191 quads.
C18_IndexBuffer ==
    last.op = "new" =>
        LET ups == IndexUploads(calls)
            d == ups[1].data
        IN  /\ Len(ups) = 1
            /\ ups[1].buffer = graphics.index_buffer
            /\ ups[1].offset = 0
            /\ Len(d) = graphics.capacity * 6
            /\ \A q \in 0..(graphics.capacity - 1) :
                  SubSeq(d, 6 * q + 1, 6 * q + 6) =
                      <<4 * q, 4 * q + 1, 4 * q + 2,
                        4 * q + 2, 4 * q + 3, 4 * q>>
            /\ graphics.capacity <= 8191
            /\ \A i \in DOMAIN d :
                  d[i] < 65536 /\ d[i] < graphics.capacity * 4
            /\ \A i \in 0..(8191 * 6 - 1) :
                  index_at(i) < 65536 /\ index_at(i) < 8191 * 4

\* construction has uploaded the indices, the last quad ending at 4 * 1023
C18_Witness ==
    /\ last.op = "new"
    /\ Len(IndexUploads(calls)) = 1
    /\ Len(IndexUploads(calls)[1].data) = 6144
    /\ IndexUploads(calls)[1].data[6144] = 4092
    /\ IndexUploads(calls)[1].data[6143] = 4095

\* C19: in every reachable state the stored letterbox is the letterbox of
\* the stored internal and window sizes, and the window projection is
\* ortho(0, window_width, window_height, 0, -1, 1).
C19_WindowStateIsCurrent ==
    /\ graphics.letterbox =
          letterbox(graphics.internal_width, graphics.internal_height,
                    graphics.window_width, graphics.window_height)
    /\ graphics.window_projection =
          ortho(0, graphics.window_width, graphics.window_height, 0, -1, 1)

\* a resize in the middle of a batch, to a window with a margin on the left
C19_Witness ==
    /\ last.op = "set_window_size"
    /\ graphics.sprite_count > 0
    /\ graphics.letterbox.x > 0
    /\ graphics.window_width > graphics.internal_width

\* C20: set_texture(t), and a draw of t, return with t bound; flush,
\* present, set_window_size and clear leave the bound texture as it is; and
\* no step takes the context back to having no texture bound.
C20_TextureChangesOnlyInSetTexture ==
    [][/\ last'.op \in {"set_texture", "draw"} =>
              graphics'.texture = last'.arg
       /\ last'.op \in {"flush", "present", "set_window_size", "clear"} =>
              graphics'.texture = graphics.texture
       /\ graphics.texture # None => graphics'.texture # None]_vars

\* a second present, over a batch, with the texture bound in an earlier
\* frame still bound
C20_Witness ==
    /\ last.op = "present"
    /\ last.presented
    /\ last.sprite_count > 0
    /\ last.texture # None
    /\ graphics.texture = last.texture

====
